---- MODULE Spec2Model ----
(***************************************************************************)
(* A model of the Duco Communication Print API client                       *)
(* (custom_components/ducobox/api.py, class DucoCommunicationPrintApi).     *)
(*                                                                         *)
(* The client is a single-flow asynchronous program: every operation is a  *)
(* sequence of awaited HTTP GETs with no shared mutable state, so each     *)
(* operation is one action that takes the responses of the device as its   *)
(* inputs and leaves the requests it issued (log), the responses it got    *)
(* (resps) and what it returned or raised (ret).                           *)
(*                                                                         *)
(* Optional values (Python None, a missing JSON key) are <<>>; a present   *)
(* value v is <<v>>.  JSON fields carry the types of the data model: text  *)
(* for location/devtype/state, numbers for rh and the parameter bundles.   *)
(***************************************************************************)
EXTENDS Integers, Sequences, FiniteSets, TLC

VARIABLES pc, call, log, resps, ret, devState, lastLabel

vars == <<pc, call, log, resps, ret, devState, lastLabel>>

----------------------------------------------------------------------------
(* Bounds of the model                                                     *)

\* at most this many candidate ids answer a scan with something other than
\* the default outcome (a timeout)
MaxNodes == 2

----------------------------------------------------------------------------
(* Program constants                                                       *)

BOX_NODE_ID == 1
REQUEST_TIMEOUT == 10
SCAN_TIMEOUT == 2
HTTP_OK == 200
LOW_START == 2
LOW_STOP == 11
HIGH_START == 50
HIGH_STOP == 101

None == <<>>
Some(v) == <<v>>

\* how a call ends: an exception leaves it, or it returns a boolean (ok), a
\* list of nodes, an optional energy info, a snapshot or an optional
\* configuration; the fields a call does not return keep their empty value
NoResult ==
    [raised |-> FALSE, ok |-> FALSE, nodes |-> <<>>, info |-> None,
     data |-> None, config |-> None]
Raised == [NoResult EXCEPT !.raised = TRUE]
ReturnedBool(v) == [NoResult EXCEPT !.ok = v]
ReturnedNodes(v) == [NoResult EXCEPT !.nodes = v]
ReturnedInfo(v) == [NoResult EXCEPT !.info = v]
ReturnedData(v) == [NoResult EXCEPT !.data = Some(v)]
ReturnedConfig(v) == [NoResult EXCEPT !.config = v]

\* Python truthiness of data.get(key) for a text field and for a number
TruthyStr(o) == o # None /\ o[1] # ""
TruthyNum(o) == o # None /\ o[1] # 0

----------------------------------------------------------------------------
(* The transport: session.get and what the device may answer               *)

\* A request as session.get sees it.
Request(ep, node, mod, para, value, timeout) ==
    [ep |-> ep, node |-> node, mod |-> mod, para |-> para, value |-> value,
     timeout |-> timeout]

\* A response: the call raised (timeout, connection error), or it returned a
\* status and a body that response.json() decodes (json, with the decoded
\* object in body) or fails to decode.
Fault == [fault |-> TRUE, status |-> 0, json |-> FALSE, body |-> None]
Http(status, json, body) ==
    [fault |-> FALSE, status |-> status, json |-> json,
     body |-> IF json THEN Some(body) ELSE None]

\* statuses a device (or a proxy in front of it) answers with: 200, a
\* success status other than 200, and an error status
Statuses == {200, 204, 500}

\* response.raise_for_status(): raises for a status of 400 and above
RaisesForStatus(r) == r.status >= 400

----------------------------------------------------------------------------
(* async_get_nodes                                                         *)

NodeInfoBody(location, devtype, rh, state) ==
    [location |-> location, devtype |-> devtype, rh |-> rh, state |-> state]

\* (a variant of Range that takes stop as the last value)
RangeInclusive(start, stop) == [i \in 1..(stop - start + 1) |-> start + i - 1]
\* range(start, stop) as the sequence of its values
Range(start, stop) == [i \in 1..(stop - start) |-> start + i - 1]

node_ranges == <<Range(LOW_START, LOW_STOP), Range(HIGH_START, HIGH_STOP)>>

\* the flattened iteration order of the two nested for loops
ScanOrder == node_ranges[1] \o node_ranges[2]

\* (a variant of SanitizeRh that keeps a humidity of zero)
SanitizeRhKeepsZero(rh) == IF rh # None /\ rh[1] >= 0 THEN rh ELSE None
\* rh=data.get("rh") if data.get("rh") and data.get("rh") > 0 else None
SanitizeRh(rh) == IF TruthyNum(rh) /\ rh[1] > 0 THEN rh ELSE None

DucoBoxNodeData(node_id, data) ==
    [node_id |-> node_id,
     location |-> data.location[1],
     devtype |-> data.devtype[1],
     rh |-> SanitizeRh(data.rh),
     state |-> data.state]

\* (a variant of ValidNode that looks at the location alone)
ValidNodeLocationOnly(data) == TruthyStr(data.location)
\* if data.get("location") and data.get("devtype")
ValidNode(data) == TruthyStr(data.location) /\ TruthyStr(data.devtype)

\* (a variant of ProbeExcept that lets the exception leave the scan)
ProbeExceptPropagates(st) == [st EXCEPT !.raised = TRUE]
\* the except clause of the probe: log and continue with the next candidate
ProbeExcept(st) == st

\* (a variant of ProbeBody that puts a new node at the head of the list)
ProbeBodyAppendsFirst(st, node_id, r) ==
    IF r.status = HTTP_OK
    THEN IF ~r.json
         THEN ProbeExcept(st)
         ELSE IF ValidNode(r.body[1])
              THEN [st EXCEPT !.nodes = <<DucoBoxNodeData(node_id, r.body[1])>> \o @]
              ELSE st
    ELSE st
\* the body of the try block once session.get has answered with r
ProbeBody(st, node_id, r) ==
    IF r.status = HTTP_OK
    THEN IF ~r.json
         THEN ProbeExcept(st)
         ELSE IF ValidNode(r.body[1])
              THEN [st EXCEPT !.nodes = Append(@, DucoBoxNodeData(node_id, r.body[1]))]
              ELSE st
    ELSE st

\* one iteration of the inner loop: one session.get, then the try body
Probe(st, node_id, r) ==
    LET sent == [st EXCEPT
                   !.log = Append(@, Request("nodeinfoget", Some(node_id), None,
                                             None, None, SCAN_TIMEOUT)),
                   !.resps = Append(@, r)]
    IN  IF r.fault THEN ProbeExcept(sent) ELSE ProbeBody(sent, node_id, r)

\* the loops from position i of the scan order on; dev is what the device
\* answers for each node id; a raised exception leaves the loops
RECURSIVE ScanFrom(_, _, _, _)
ScanFrom(st, order, i, dev) ==
    IF i > Len(order) \/ st.raised
    THEN st
    ELSE ScanFrom(Probe(st, order[i], dev[order[i]]), order, i + 1, dev)

ScanStart == [nodes |-> <<>>, log |-> <<>>, resps |-> <<>>, raised |-> FALSE]

\* async_get_nodes as a whole
GetNodesRun(dev) == ScanFrom(ScanStart, ScanOrder, 1, dev)

\* ---- what the device may answer to a probe ----

\* node ids the device may answer for: one of the low range, the two ends of
\* the high range, the box itself, and ids between and past the two ranges
DeviceIds == {1, 2, 11, 49, 50, 100, 101}
AllIds == 0..(HIGH_STOP + 1)

ProbeOutcomes ==
    { Http(200, FALSE, None),
      Http(204, TRUE, NodeInfoBody(Some("Bath"), Some("UCRH"), Some(45), None)),
      Http(200, TRUE, NodeInfoBody(None, Some("UCRH"), Some(45), None)),
      Http(200, TRUE, NodeInfoBody(Some("Bath"), Some(""), Some(45), None)),
      Http(200, TRUE, NodeInfoBody(Some("Bath"), Some("UCRH"), Some(45), Some("AUTO"))),
      Http(200, TRUE, NodeInfoBody(Some("Hall"), Some("UCCO2"), None, None)),
      Http(200, TRUE, NodeInfoBody(Some("Wc"), Some("UCRH"), Some(0), None)),
      Http(200, TRUE, NodeInfoBody(Some("Box"), Some("UCRH"), Some(-5), None)) }

\* the devices of the model: every id times out except at most MaxNodes ids
Devices ==
    UNION { { [id \in AllIds |-> IF id \in pop THEN f[id] ELSE Fault]
              : f \in [pop -> ProbeOutcomes] }
            : pop \in { s \in SUBSET DeviceIds : Cardinality(s) <= MaxNodes } }

\* every run of async_get_nodes against a device of the model
ScanRuns == { GetNodesRun(dev) : dev \in Devices }

----------------------------------------------------------------------------
(* State labels, async_set_ventilation_state                               *)

STATE_MAP ==
    "AUTO" :> "Auto" @@ "MAN1" :> "Manual 1" @@ "CNT1" :> "Manual 1 Forced" @@
    "MAN2" :> "Manual 2" @@ "CNT2" :> "Manual 2 Forced" @@ "MAN3" :> "Manual 3" @@
    "CNT3" :> "Manual 3 Forced" @@ "EMPT" :> "Away"

\* (a variant of STATE_REVERSE_MAP that keeps the direction of STATE_MAP)
STATE_REVERSE_MAP_NotReversed == STATE_MAP
\* {v: k for k, v in STATE_MAP.items()}; the labels of STATE_MAP are distinct
STATE_REVERSE_MAP ==
    [v \in { STATE_MAP[k] : k \in DOMAIN STATE_MAP } |->
       CHOOSE k \in DOMAIN STATE_MAP : STATE_MAP[k] = v]

\* dict.get(key, default)
DictGet(d, key, default) == IF key \in DOMAIN d THEN d[key] ELSE default

\* the outcome of a call that checks raise_for_status() and returns
\* response.status == 200
SetStateResult(r) ==
    IF r.fault \/ RaisesForStatus(r)
    THEN Raised
    ELSE ReturnedBool(r.status = HTTP_OK)

SetVentilationStateRun(state, r) ==
    LET api_state == DictGet(STATE_REVERSE_MAP, state, state)
    IN  [log |-> <<Request("nodesetoperstate", Some(BOX_NODE_ID), None, None,
                           Some(api_state), REQUEST_TIMEOUT)>>,
         resps |-> <<r>>,
         ret |-> SetStateResult(r)]

\* what a caller may pass: the eight labels, a raw code of the table and a
\* raw code the table does not know
StateArgs ==
    { STATE_MAP[k] : k \in DOMAIN STATE_MAP } \cup {"EMPT", "XYZ"}

\* a response without a body of interest
PlainResponses == {Fault} \cup { Http(s, FALSE, None) : s \in Statuses }

----------------------------------------------------------------------------
(* async_get_energy_info                                                   *)

EnergyBody(energy_info, energy_fan) ==
    [EnergyInfo |-> energy_info, EnergyFan |-> energy_fan]

\* data.get(section, {}) for a section of named numeric fields
EmptyEnergyInfo == [TempODA |-> None, BypassStatus |-> None]
EmptyEnergyFan == [SupplyFanSpeed |-> None]
SectionOr(o, empty) == IF o = None THEN empty ELSE o[1]

\* energy_data.get(k) / 10 if energy_data.get(k) else None; the quotient is
\* kept as the fraction raw/10
TenthsOrNone(o) == IF TruthyNum(o) THEN Some([num |-> o[1], den |-> 10]) ELSE None

DucoBoxEnergyInfo(data) ==
    LET energy_data == SectionOr(data.EnergyInfo, EmptyEnergyInfo)
        fan_data == SectionOr(data.EnergyFan, EmptyEnergyFan)
    IN  [temp_oda |-> TenthsOrNone(energy_data.TempODA),
         bypass_status |-> energy_data.BypassStatus,
         supply_fan_speed |-> fan_data.SupplyFanSpeed]

\* the try block raised: session.get, raise_for_status or response.json
EnergyRaised(r) == r.fault \/ RaisesForStatus(r) \/ ~r.json

\* (a variant of EnergyExcept that lets the exception leave the call)
EnergyExceptPropagates(st) == [st EXCEPT !.raised = TRUE]
\* the except clause of async_get_energy_info: log and return None
EnergyExcept(st) == st

GetEnergyInfoRun(r) ==
    LET sent == [info |-> None,
                 log |-> <<Request("boxinfoget", None, None, None, None,
                                   REQUEST_TIMEOUT)>>,
                 resps |-> <<r>>,
                 raised |-> FALSE]
    IN  IF EnergyRaised(r)
        THEN EnergyExcept(sent)
        ELSE [sent EXCEPT !.info = Some(DucoBoxEnergyInfo(r.body[1]))]

EnergyBodies ==
    { EnergyBody(Some([TempODA |-> Some(0), BypassStatus |-> None]), None) }

FullEnergyBody ==
    EnergyBody(Some([TempODA |-> Some(215), BypassStatus |-> Some(0)]),
               Some([SupplyFanSpeed |-> Some(1200)]))

EnergyOutcomes ==
    {Fault, Http(200, FALSE, None)}
      \cup { Http(s, TRUE, FullEnergyBody) : s \in Statuses }
      \cup { Http(200, TRUE, b) : b \in EnergyBodies }

----------------------------------------------------------------------------
(* async_get_data                                                          *)

\* the primary read raised: session.get, raise_for_status or response.json
PrimaryRaised(r) == r.fault \/ RaisesForStatus(r) \/ ~r.json

\* if state and state in self.STATE_MAP: state = self.STATE_MAP[state]
FriendlyState(state) ==
    IF TruthyStr(state) /\ state[1] \in DOMAIN STATE_MAP
    THEN Some(STATE_MAP[state[1]])
    ELSE state

SkippedEnergy == [info |-> None, log |-> <<>>, resps |-> <<>>, raised |-> FALSE]

DucoBoxData(data, energy_info, nodes) ==
    [state |-> FriendlyState(data.state),
     rh |-> data.rh,
     energy_info |-> energy_info,
     nodes |-> nodes]

\* r is the answer to the primary read, en the run of async_get_energy_info
\* and sc the run of async_get_nodes, each made only when its flag is set
GetDataRun(fetch_energy, fetch_nodes, r, en, sc) ==
    LET first == <<Request("nodeinfoget", Some(BOX_NODE_ID), None, None, None,
                           REQUEST_TIMEOUT)>>
        energy == IF fetch_energy THEN en ELSE SkippedEnergy
        scan == IF fetch_nodes THEN sc ELSE ScanStart
    IN  IF PrimaryRaised(r)
        THEN [log |-> first, resps |-> <<r>>, ret |-> Raised]
        ELSE IF energy.raised
        THEN [log |-> first \o energy.log, resps |-> <<r>> \o energy.resps,
              ret |-> Raised]
        ELSE [log |-> first \o energy.log \o scan.log,
              resps |-> <<r>> \o energy.resps \o scan.resps,
              ret |-> IF scan.raised
                      THEN Raised
                      ELSE ReturnedData(DucoBoxData(r.body[1], energy.info, scan.nodes))]

\* what the box answers to nodeinfoget for node 1 when it holds state code c
PrimaryOutcomes(c) ==
    {Fault, Http(200, FALSE, None)}
      \cup { Http(s, TRUE, NodeInfoBody(Some("Attic"), Some("BOX"), Some(0), Some(c)))
             : s \in Statuses }
      \cup { Http(200, TRUE, NodeInfoBody(Some("Attic"), Some("BOX"), None, None)) }

----------------------------------------------------------------------------
(* async_get_node_config                                                   *)

NodeParams ==
    <<"CO2Setpoint", "RHSetpoint", "Manual1", "Manual2", "Manual3",
      "ManualTimeout", "TempDependent", "RHDelta", "SensorVisuLevel",
      "AutoMin", "AutoMax", "Capacity">>

BoxParams ==
    <<"BypassMode", "BypassAdaptive", "ComfortTemperature", "FilterReset",
      "CalibPinMax", "CalibPoutMax", "CalibQout", "ProgramModeZone1",
      "ProgramModeZone2">>

Elems(seq) == { seq[i] : i \in DOMAIN seq }
AllParams == Elems(NodeParams) \cup Elems(BoxParams)

\* the node-level parameters async_get_node_config reads for a node other
\* than node 1: the first nine
OtherNodeParams == Elems(SubSeq(NodeParams, 1, 9))

\* a JSON value under a parameter key: no such key, a value that is not an
\* object, or an object with optional Val/Min/Max/Inc
JAbsent == [kind |-> "absent", Val |-> None, Min |-> None, Max |-> None, Inc |-> None]
JScalar == [kind |-> "scalar", Val |-> None, Min |-> None, Max |-> None, Inc |-> None]
JDict(val, min, max, inc) ==
    [kind |-> "dict", Val |-> val, Min |-> min, Max |-> max, Inc |-> inc]

\* a JSON object of parameters: the keys given, every other key absent
JObject(given) == [k \in AllParams |-> IF k \in DOMAIN given THEN given[k] ELSE JAbsent]
EmptyObject == [k \in AllParams |-> JAbsent]

OptGet(o, default) == IF o = None THEN default ELSE o[1]

DucoBoxNodeConfigParam(param_data) ==
    [val |-> OptGet(param_data.Val, 0),
     min |-> OptGet(param_data.Min, 0),
     max |-> OptGet(param_data.Max, 0),
     inc |-> OptGet(param_data.Inc, 1)]

create_param(data, key) ==
    IF data[key].kind = "dict"
    THEN Some(DucoBoxNodeConfigParam(data[key]))
    ELSE None

ConfigBody(top, location, energy) ==
    [top |-> top, Location |-> location, Energy |-> energy]

\* (a variant of BoxNodeConfig that reads the box-level slots from node_data)
BoxNodeConfigMixed(node_id, node_data, energy_data, location) ==
    [node_id |-> node_id,
     node |-> [k \in Elems(NodeParams) |-> create_param(node_data, k)],
     box |-> [k \in Elems(BoxParams) |-> create_param(node_data, k)],
     location |-> location]
\* the configuration of node 1, from node_data and energy_data
BoxNodeConfig(node_id, node_data, energy_data, location) ==
    [node_id |-> node_id,
     node |-> [k \in Elems(NodeParams) |-> create_param(node_data, k)],
     box |-> [k \in Elems(BoxParams) |-> create_param(energy_data, k)],
     location |-> location]

\* the configuration of any other node, from data
OtherNodeConfig(node_id, data, location) ==
    [node_id |-> node_id,
     node |-> [k \in Elems(NodeParams) |->
                 IF k \in OtherNodeParams THEN create_param(data, k) ELSE None],
     box |-> [k \in Elems(BoxParams) |-> None],
     location |-> location]

ConfigRequest(ep, node) == Request(ep, node, None, None, None, REQUEST_TIMEOUT)

\* the read raised inside the try block: session.get, or response.json after
\* a 200
ConfigReadRaised(r) == r.fault \/ (r.status = HTTP_OK /\ ~r.json)

\* node_data = {}; if response.status == 200: node_data = await response.json()
NodeDataOf(r) == IF r.status = HTTP_OK THEN r.body[1].top ELSE EmptyObject
LocationOf(r) == IF r.status = HTTP_OK THEN r.body[1].Location ELSE None

\* energy_data = {}; if box_response.status == 200:
\*     energy_data = box_data.get("Energy", {})
EnergyDataOf(r) ==
    IF r.status = HTTP_OK THEN OptGet(r.body[1].Energy, EmptyObject) ELSE EmptyObject

\* the branch for node 1: r1 answers nodeconfigget, r2 answers boxconfigget
BoxConfigRun(node_id, r1, r2) ==
    LET req1 == ConfigRequest("nodeconfigget", Some(node_id))
        req2 == ConfigRequest("boxconfigget", None)
    IN  IF ConfigReadRaised(r1)
        THEN [log |-> <<req1>>, resps |-> <<r1>>, ret |-> ReturnedConfig(None)]
        ELSE IF ConfigReadRaised(r2)
        THEN [log |-> <<req1, req2>>, resps |-> <<r1, r2>>, ret |-> ReturnedConfig(None)]
        ELSE [log |-> <<req1, req2>>, resps |-> <<r1, r2>>,
              ret |-> ReturnedConfig(Some(BoxNodeConfig(node_id, NodeDataOf(r1),
                                                        EnergyDataOf(r2),
                                                        LocationOf(r1))))]

\* the branch for any other node: r1 answers nodeconfigget
OtherConfigRun(node_id, r1) ==
    LET req1 == ConfigRequest("nodeconfigget", Some(node_id))
    IN  [log |-> <<req1>>, resps |-> <<r1>>,
         ret |-> IF ~ConfigReadRaised(r1) /\ r1.status = HTTP_OK
                 THEN ReturnedConfig(Some(OtherNodeConfig(node_id, NodeDataOf(r1),
                                                          LocationOf(r1))))
                 ELSE ReturnedConfig(None)]

\* if node_id == 1
IsBoxNode(node_id) == node_id = 1

GetNodeConfigRun(node_id, r1, r2) ==
    IF IsBoxNode(node_id)
    THEN BoxConfigRun(node_id, r1, r2)
    ELSE OtherConfigRun(node_id, r1)

FullParam == JDict(Some(800), Some(400), Some(2000), Some(10))
ValOnlyParam == JDict(Some(3), None, None, None)

NodeConfigBodies ==
    { ConfigBody(JObject("CO2Setpoint" :> FullParam @@ "AutoMin" :> ValOnlyParam
                         @@ "BypassMode" :> FullParam),
                 Some("Living"), None),
      ConfigBody(JObject("RHSetpoint" :> JScalar @@ "Capacity" :> FullParam
                         @@ "Manual1" :> JDict(None, None, None, None)),
                 None, None) }

BoxConfigBodies ==
    { ConfigBody(JObject("CalibQout" :> FullParam), None,
                 Some(JObject("BypassMode" :> FullParam
                              @@ "ComfortTemperature" :> ValOnlyParam
                              @@ "CO2Setpoint" :> FullParam))),
      ConfigBody(EmptyObject, None, None) }

ConfigOutcomes(bodies) ==
    {Fault, Http(200, FALSE, None)}
      \cup { Http(s, TRUE, b) : s \in Statuses, b \in bodies }

NodeIdArgs == {1, 2, 50}

----------------------------------------------------------------------------
(* async_set_node_config, async_set_node_override                          *)

box_level_params ==
    {"BypassMode", "BypassAdaptive", "ComfortTemperature", "FilterReset",
     "CalibPinMax", "CalibPoutMax", "CalibQout", "ProgramModeZone1",
     "ProgramModeZone2"}

\* int(value) for a value given in tenths: truncation towards zero
IntOf(tenths) == IF tenths >= 0 THEN tenths \div 10 ELSE -((-tenths) \div 10)

\* (a variant of UsesBoxEndpoint that ignores the node id)
UsesBoxEndpointAnyNode(node_id, parameter) == parameter \in box_level_params
\* if node_id == 1 and parameter in box_level_params
UsesBoxEndpoint(node_id, parameter) ==
    node_id = 1 /\ parameter \in box_level_params

\* (a variant of SoftResult that lets a transport fault leave the call)
SoftResultPropagates(r) == IF r.fault THEN Raised ELSE ReturnedBool(r.status = HTTP_OK)
\* a call that returns True on a 200 and False on anything else, a raised
\* exception included
SoftResult(r) == ReturnedBool(~r.fault /\ r.status = HTTP_OK)

SetNodeConfigRun(node_id, parameter, value, r) ==
    [log |-> IF UsesBoxEndpoint(node_id, parameter)
             THEN <<Request("boxconfigset", None, Some("Energy"), Some(parameter),
                            Some(IntOf(value)), REQUEST_TIMEOUT)>>
             ELSE <<Request("nodeconfigset", Some(node_id), None, Some(parameter),
                            Some(IntOf(value)), REQUEST_TIMEOUT)>>,
     resps |-> <<r>>,
     ret |-> SoftResult(r)]

SetNodeOverrideRun(node_id, percentage, r) ==
    [log |-> <<Request("nodesetoverrule", Some(node_id), None, None,
                       Some(percentage), REQUEST_TIMEOUT)>>,
     resps |-> <<r>>,
     ret |-> SoftResult(r)]

ParameterArgs == {"BypassMode", "CalibQout", "CO2Setpoint", "AutoMin"}
\* values in tenths: -1.5, -0.4, 0, 0.7, 21.0, 21.9
ValueArgs == {-15, -4, 0, 7, 210, 219}
PercentageArgs == {0, 50, 100, 255}
WriteNodeIdArgs == {1, 5}

----------------------------------------------------------------------------
(* The calls                                                               *)

NoCall == [op |-> "none"]

Init ==
    /\ pc = "idle"
    /\ call = NoCall
    /\ log = <<>>
    /\ resps = <<>>
    /\ ret = NoResult
    /\ devState = "AUTO"
    /\ lastLabel = None

Done(run) ==
    /\ log' = run.log
    /\ resps' = run.resps
    /\ ret' = run.ret
    /\ pc' = "done"

\* a caller awaits async_get_nodes()
GetNodes ==
    /\ pc = "idle"
    /\ \E st \in ScanRuns :
         /\ call' = [op |-> "async_get_nodes"]
         /\ Done([log |-> st.log, resps |-> st.resps,
                  ret |-> IF st.raised THEN Raised ELSE ReturnedNodes(st.nodes)])
    /\ UNCHANGED <<devState, lastLabel>>

\* a caller awaits async_get_energy_info()
GetEnergyInfo ==
    /\ pc = "idle"
    /\ \E r \in EnergyOutcomes :
         LET st == GetEnergyInfoRun(r)
         IN  /\ call' = [op |-> "async_get_energy_info"]
             /\ Done([log |-> st.log, resps |-> st.resps,
                      ret |-> IF st.raised THEN Raised ELSE ReturnedInfo(st.info)])
    /\ UNCHANGED <<devState, lastLabel>>

\* a caller awaits async_get_data(fetch_energy, fetch_nodes); the box answers
\* the primary read with the state code it holds
GetData ==
    /\ pc = "idle"
    /\ \E fetch_energy, fetch_nodes \in BOOLEAN :
       \E r \in PrimaryOutcomes(devState) :
       \E re \in (IF fetch_energy /\ ~PrimaryRaised(r) THEN EnergyOutcomes ELSE {Fault}) :
       \E sc \in (IF fetch_nodes /\ ~PrimaryRaised(r) THEN ScanRuns ELSE {ScanStart}) :
         /\ call' = [op |-> "async_get_data", fetch_energy |-> fetch_energy,
                     fetch_nodes |-> fetch_nodes]
         /\ Done(GetDataRun(fetch_energy, fetch_nodes, r, GetEnergyInfoRun(re), sc))
    /\ UNCHANGED <<devState, lastLabel>>

\* a caller awaits async_set_ventilation_state(state); a box that answers 200
\* has stored the value it was sent
SetVentilationState ==
    /\ pc = "idle"
    /\ \E state \in StateArgs, r \in PlainResponses :
         LET run == SetVentilationStateRun(state, r)
             accepted == ~r.fault /\ r.status = 200
         IN  /\ call' = [op |-> "async_set_ventilation_state", state |-> state]
             /\ Done(run)
             /\ devState' = IF accepted THEN run.log[1].value[1] ELSE devState
             /\ lastLabel' = IF accepted THEN Some(state) ELSE lastLabel

\* a caller awaits async_get_node_config(node_id)
GetNodeConfig ==
    /\ pc = "idle"
    /\ \E node_id \in NodeIdArgs :
       \E r1 \in ConfigOutcomes(NodeConfigBodies) :
       \E r2 \in (IF IsBoxNode(node_id) /\ ~ConfigReadRaised(r1)
                  THEN ConfigOutcomes(BoxConfigBodies) ELSE {Fault}) :
         /\ call' = [op |-> "async_get_node_config", node_id |-> node_id]
         /\ Done(GetNodeConfigRun(node_id, r1, r2))
    /\ UNCHANGED <<devState, lastLabel>>

\* a caller awaits async_set_node_config(node_id, parameter, value)
SetNodeConfig ==
    /\ pc = "idle"
    /\ \E node_id \in WriteNodeIdArgs, parameter \in ParameterArgs,
          value \in ValueArgs, r \in PlainResponses :
         /\ call' = [op |-> "async_set_node_config", node_id |-> node_id,
                     parameter |-> parameter, value |-> value]
         /\ Done(SetNodeConfigRun(node_id, parameter, value, r))
    /\ UNCHANGED <<devState, lastLabel>>

\* a caller awaits async_set_node_override(node_id, percentage)
SetNodeOverride ==
    /\ pc = "idle"
    /\ \E node_id \in WriteNodeIdArgs, percentage \in PercentageArgs,
          r \in PlainResponses :
         /\ call' = [op |-> "async_set_node_override", node_id |-> node_id,
                     percentage |-> percentage]
         /\ Done(SetNodeOverrideRun(node_id, percentage, r))
    /\ UNCHANGED <<devState, lastLabel>>

\* the caller takes the result; the client keeps nothing between calls
Finish ==
    /\ pc = "done"
    /\ pc' = "idle"
    /\ call' = NoCall
    /\ log' = <<>>
    /\ resps' = <<>>
    /\ ret' = NoResult
    /\ UNCHANGED <<devState, lastLabel>>

Next ==
    \/ GetNodes
    \/ GetEnergyInfo
    \/ GetData
    \/ SetVentilationState
    \/ GetNodeConfig
    \/ SetNodeConfig
    \/ SetNodeOverride
    \/ Finish

Spec == Init /\ [][Next]_vars

----------------------------------------------------------------------------
(* The scanner's claims                                                    *)

ScanDone == pc = "done" /\ call.op = "async_get_nodes"

\* the candidate ids as the specification states them
CandidateIds == (2..10) \cup (50..100)

\* the presence rule as the specification states it: HTTP 200, the body
\* decodes, location and devtype both present and non-empty
PresenceRule(r) ==
    /\ ~r.fault
    /\ r.status = 200
    /\ r.json
    /\ r.body[1].location \notin {None, Some("")}
    /\ r.body[1].devtype \notin {None, Some("")}

\* the probe raised inside the try block: a transport fault or a decode error
ProbeRaised(r) == r.fault \/ (r.status = 200 /\ ~r.json)

ProbesOf(id) ==
    { i \in DOMAIN log : log[i].ep = "nodeinfoget" /\ log[i].node = Some(id) }

ReturnedIds == { ret.nodes[j].node_id : j \in DOMAIN ret.nodes }

\* C1: failure isolation. When the probe of a candidate raises, the scan
\* neither raises nor stops: every other candidate is probed, and every other
\* candidate that satisfies the presence rule is in the returned list.
C1_FailureIsolation ==
    (ScanDone /\ \E i \in DOMAIN resps : ProbeRaised(resps[i])) =>
      /\ ~ret.raised
      /\ \A id \in CandidateIds : ProbesOf(id) # {}
      /\ \A j \in DOMAIN log :
           PresenceRule(resps[j]) => log[j].node[1] \in ReturnedIds

\* a scan in which a candidate timed out, a later one failed to decode, and
\* candidates after both are in the result
C1_Witness ==
    /\ ScanDone
    /\ ~ret.raised
    /\ \E i, j, k \in DOMAIN resps :
         /\ i < j /\ j < k
         /\ resps[i].fault
         /\ resps[j].status = 200 /\ ~resps[j].json
         /\ PresenceRule(resps[k])
         /\ log[k].node[1] \in ReturnedIds

\* C2: one run issues exactly one nodeinfoget probe for each id in 2..10 and
\* 50..100, sixty in all, and none for any other id (not 1, not 11..49).
C2_ProbesExactlyCandidates ==
    ScanDone =>
      /\ Len(log) = 60
      /\ \A i \in DOMAIN log : log[i].ep = "nodeinfoget"
      /\ \A id \in AllIds :
           Cardinality(ProbesOf(id)) = IF id \in CandidateIds THEN 1 ELSE 0

\* a complete scan in which probes failed, so a retry would have shown
C2_Witness ==
    /\ ScanDone
    /\ Len(log) = 60
    /\ \E i \in DOMAIN resps : resps[i].fault
    /\ \E i \in DOMAIN resps : ~resps[i].fault /\ resps[i].status # HTTP_OK
    /\ \E i \in DOMAIN resps : PresenceRule(resps[i])

\* C3: presence rule. A candidate is in the returned list if and only if its
\* probe returned 200, decoded, and carried a non-empty location and devtype;
\* a 200 lacking either yields no entry, and later candidates are probed.
C3_PresenceRule ==
    ScanDone =>
      /\ ~ret.raised
      /\ \A i \in DOMAIN log :
           (log[i].node[1] \in ReturnedIds) <=> PresenceRule(resps[i])
      /\ \A i \in DOMAIN log :
           (~PresenceRule(resps[i]) /\ log[i].node[1] # 100)
             => \E j \in DOMAIN log : j > i

\* a 200 that lacks devtype gave no entry and a later candidate is returned
C3_Witness ==
    /\ ScanDone
    /\ \E i, k \in DOMAIN resps :
         /\ i < k
         /\ ~resps[i].fault /\ resps[i].status = 200 /\ resps[i].json
         /\ resps[i].body[1].devtype = Some("")
         /\ log[i].node[1] \notin ReturnedIds
         /\ PresenceRule(resps[k])
         /\ log[k].node[1] \in ReturnedIds

\* C8: the returned list is in scan order: node ids strictly increase along
\* it, so the low range precedes the high range and no id appears twice.
C8_ScanOrder ==
    ScanDone =>
      \A a, b \in DOMAIN ret.nodes :
        a < b => ret.nodes[a].node_id < ret.nodes[b].node_id

\* a returned list with a low-range and a high-range node
C8_Witness ==
    /\ ScanDone
    /\ \E a, b \in DOMAIN ret.nodes :
         /\ a < b
         /\ ret.nodes[a].node_id \in 2..10
         /\ ret.nodes[b].node_id \in 50..100
    /\ \E i \in DOMAIN resps : resps[i].fault

----------------------------------------------------------------------------
(* The claims of the configuration reader                                  *)

ConfigDone == pc = "done" /\ call.op = "async_get_node_config"

\* a read failed as the specification counts it: a transport fault, a
\* status other than 200, or a body that does not decode
ReadFailed(r) == r.fault \/ r.status # 200 \/ ~r.json

\* the slot the specification derives from a JSON object for a key
SpecSlot(obj, k) ==
    IF obj[k].kind = "dict"
    THEN Some([val |-> IF obj[k].Val = None THEN 0 ELSE obj[k].Val[1],
               min |-> IF obj[k].Min = None THEN 0 ELSE obj[k].Min[1],
               max |-> IF obj[k].Max = None THEN 0 ELSE obj[k].Max[1],
               inc |-> IF obj[k].Inc = None THEN 1 ELSE obj[k].Inc[1]])
    ELSE None

BoxLevelNames ==
    {"BypassMode", "BypassAdaptive", "ComfortTemperature", "FilterReset",
     "CalibPinMax", "CalibPoutMax", "CalibQout", "ProgramModeZone1",
     "ProgramModeZone2"}

\* C4: when either read of the node 1 aggregation fails in any way (a
\* transport fault, a decode fault or a non-200 status), the operation
\* returns the absent result, never a NodeConfig built from one read.
C4_NoPartialConfig ==
    (ConfigDone /\ call.node_id = 1) =>
      ((\E i \in DOMAIN resps : ReadFailed(resps[i])) => ret.config = None)

\* C6 as stated: node 1 always issues exactly two reads, nodeconfigget for
\* node 1 and then boxconfigget; any other node exactly one nodeconfigget.
C6_ExactlyTwoReads ==
    ConfigDone =>
      IF call.node_id = 1
      THEN /\ Len(log) = 2
           /\ log[1].ep = "nodeconfigget" /\ log[1].node = Some(1)
           /\ log[2].ep = "boxconfigget"
      ELSE /\ Len(log) = 1
           /\ log[1].ep = "nodeconfigget" /\ log[1].node = Some(call.node_id)

\* C6, amended: for node 1 the first read is nodeconfigget for node 1 and,
\* unless that read raises a transport or decode fault (then it is the only
\* read and the result is absent), the second and last is boxconfigget; when
\* both succeed the node-level slots come from the first read and the
\* box-level slots from the Energy section of the second.  Any other node
\* issues exactly one read, nodeconfigget, never boxconfigget, and the nine
\* box-level slots of its result are absent.
C6_ReadsAndSlots ==
    ConfigDone =>
      /\ \A i \in DOMAIN log :
           log[i].ep = "boxconfigget" => (call.node_id = 1 /\ i = 2)
      /\ log[1].ep = "nodeconfigget" /\ log[1].node = Some(call.node_id)
      /\ IF call.node_id = 1
         THEN /\ IF resps[1].fault \/ (resps[1].status = 200 /\ ~resps[1].json)
                 THEN Len(log) = 1 /\ ret.config = None
                 ELSE Len(log) = 2 /\ log[2].ep = "boxconfigget"
                      /\ log[2].node = None
              /\ (Len(log) = 2 /\ ~ReadFailed(resps[1]) /\ ~ReadFailed(resps[2])) =>
                   /\ ret.config # None
                   /\ \A k \in Elems(NodeParams) :
                        ret.config[1].node[k] = SpecSlot(resps[1].body[1].top, k)
                   /\ \A k \in BoxLevelNames :
                        ret.config[1].box[k] =
                          IF resps[2].body[1].Energy = None
                          THEN None
                          ELSE SpecSlot(resps[2].body[1].Energy[1], k)
         ELSE /\ Len(log) = 1
              /\ ret.config # None =>
                   \A k \in BoxLevelNames : ret.config[1].box[k] = None

\* node 1 read twice with success, and the box-level slot BypassMode differs
\* from what the first read carries under that key
C6_Witness ==
    /\ ConfigDone
    /\ call.node_id = 1
    /\ Len(log) = 2
    /\ ~ReadFailed(resps[1]) /\ ~ReadFailed(resps[2])
    /\ ret.config # None
    /\ ret.config[1].box["ComfortTemperature"] # None
    /\ ret.config[1].box["BypassMode"] # None
    /\ ret.config[1].box["CalibQout"] = None
    /\ ret.config[1].node["CO2Setpoint"] # None
    /\ resps[1].body[1].top["BypassMode"].kind = "dict"

----------------------------------------------------------------------------
(* The claims of the write operations                                      *)

WriteOps ==
    {"async_set_ventilation_state", "async_set_node_config",
     "async_set_node_override"}

WriteDone == pc = "done" /\ call.op \in WriteOps

\* C5 as stated: every write operation returns a boolean for every outcome
\* of its HTTP call, true exactly on a 200, and never raises.
C5_AllWritesSoftFail ==
    WriteDone =>
      /\ ~ret.raised
      /\ ret.ok = (~resps[1].fault /\ resps[1].status = 200)

\* C5, amended: async_set_node_config and async_set_node_override are
\* soft-fail (a boolean for every outcome, true exactly on a 200, never an
\* exception); async_set_ventilation_state returns true on a 200 and false
\* on another status below 400, and raises on a transport fault or timeout
\* and on a status of 400 or above.
C5_WritesSoftFailButSetState ==
    WriteDone =>
      /\ Len(log) = 1
      /\ IF call.op = "async_set_ventilation_state"
         THEN IF resps[1].fault \/ resps[1].status >= 400
              THEN ret.raised
              ELSE ~ret.raised /\ ret.ok = (resps[1].status = 200)
         ELSE /\ ~ret.raised
              /\ ret.ok = (~resps[1].fault /\ resps[1].status = 200)

\* a config write whose call timed out returned false
C5_Witness ==
    /\ WriteDone
    /\ call.op = "async_set_node_config"
    /\ resps[1].fault
    /\ ~ret.raised
    /\ ret.ok = FALSE

\* the integer the specification sends for a value given in tenths: the
\* value with its fractional part cut off
SpecTruncate(tenths) ==
    CHOOSE n \in -100..100 :
      \/ tenths >= 0 /\ 10 * n <= tenths /\ tenths < 10 * n + 10
      \/ tenths < 0 /\ 10 * n >= tenths /\ tenths > 10 * n - 10

\* C7: async_set_node_config issues exactly one request; it goes to
\* boxconfigset with mod=Energy and no node argument if and only if node_id
\* is 1 and the parameter is box-level, otherwise to nodeconfigset with the
\* node id; the value sent is the integer truncation of the input.
C7_WriteRouting ==
    (pc = "done" /\ call.op = "async_set_node_config") =>
      /\ Len(log) = 1
      /\ log[1].para = Some(call.parameter)
      /\ log[1].value = Some(SpecTruncate(call.value))
      /\ IF call.node_id = 1 /\ call.parameter \in BoxLevelNames
         THEN /\ log[1].ep = "boxconfigset"
              /\ log[1].mod = Some("Energy")
              /\ log[1].node = None
         ELSE /\ log[1].ep = "nodeconfigset"
              /\ log[1].node = Some(call.node_id)
              /\ log[1].mod = None

\* a box-level name written for node 5 went to the node endpoint, with a
\* negative fractional value cut towards zero
C7_Witness ==
    /\ pc = "done" /\ call.op = "async_set_node_config"
    /\ call.node_id = 5
    /\ call.parameter = "BypassMode"
    /\ call.value = -15
    /\ log[1].ep = "nodeconfigset"
    /\ log[1].value = Some(-1)

----------------------------------------------------------------------------
(* The claims of the state read                                            *)

DataDone == pc = "done" /\ call.op = "async_get_data"

\* the ids of the nodes of a returned snapshot
SnapshotIds == { ret.data[1].nodes[j].node_id : j \in DOMAIN ret.data[1].nodes }

\* the positions of the log that are probes of the scanner
ScanProbes ==
    { i \in DOMAIN log : log[i].ep = "nodeinfoget" /\ log[i].node # Some(1) }

EnergyCalls == { i \in DOMAIN log : log[i].ep = "boxinfoget" }

\* the call raised as aiohttp counts it: a transport fault, a status of 400
\* or above, or a body that does not decode
CallRaised(r) == r.fault \/ r.status >= 400 \/ ~r.json

StateLabels ==
    {"Auto", "Manual 1", "Manual 1 Forced", "Manual 2", "Manual 2 Forced",
     "Manual 3", "Manual 3 Forced", "Away"}

\* C10: label round trip. async_set_ventilation_state(L) for a label L of
\* the table sends the code C with STATE_MAP[C] = L (EMPT for Away), and a
\* following successful state read from the device that stored C returns L;
\* a value that is no label is sent verbatim, and a state code that is not
\* in the table is returned unchanged by the read.
C10_LabelRoundTrip ==
    /\ (pc = "done" /\ call.op = "async_set_ventilation_state") =>
         LET sent == log[1].value[1]
         IN  /\ log[1].ep = "nodesetoperstate"
             /\ IF call.state \in StateLabels
                THEN sent \in DOMAIN STATE_MAP /\ STATE_MAP[sent] = call.state
                ELSE sent = call.state
             /\ call.state = "Away" => sent = "EMPT"
    /\ (DataDone /\ ~ret.raised /\ resps[1].body[1].state # None) =>
         LET code == resps[1].body[1].state[1]
         IN  /\ code \notin DOMAIN STATE_MAP => ret.data[1].state = Some(code)
             /\ (code = devState /\ lastLabel # None /\ lastLabel[1] \in StateLabels)
                  => ret.data[1].state = lastLabel
    /\ StateLabels = { STATE_MAP[c] : c \in DOMAIN STATE_MAP }

\* "Away" was set and accepted, and the following read returned "Away"
C10_Witness ==
    /\ DataDone
    /\ ~ret.raised
    /\ lastLabel = Some("Away")
    /\ devState = "EMPT"
    /\ resps[1].body[1].state = Some("EMPT")
    /\ ret.data[1].state = Some("Away")

\* a read of a device holding a code the table does not know
C10_WitnessUnknown ==
    /\ DataDone
    /\ ~ret.raised
    /\ resps[1].body[1].state = Some("XYZ")
    /\ ret.data[1].state = Some("XYZ")

----------------------------------------------------------------------------
(* The parameter slots of the configuration reader                         *)

\* the node-level parameter names as the specification lists them
NodeLevelNames ==
    {"CO2Setpoint", "RHSetpoint", "Manual1", "Manual2", "Manual3",
     "ManualTimeout", "TempDependent", "RHDelta", "SensorVisuLevel",
     "AutoMin", "AutoMax", "Capacity"}

\* C11: for every node id, primary or not, whose read succeeds, each of the
\* twelve node-level slots of the result is present exactly when the key is
\* in the response as a structured value bundle, and then holds its
\* current/min/max/increment with 0/0/0/1 for missing sub-fields; an absent
\* key gives an absent slot.
C11_UniformSubDecode ==
    (ConfigDone /\ \A i \in DOMAIN resps : ~ReadFailed(resps[i])) =>
      /\ ret.config # None
      /\ \A k \in NodeLevelNames :
           ret.config[1].node[k] = SpecSlot(resps[1].body[1].top, k)

----------------------------------------------------------------------------
(* The humidity of the scanned nodes                                       *)

\* the humidity the specification gives a node for the raw rh of its probe
SpecHumidity(raw) == IF raw = None \/ raw[1] <= 0 THEN None ELSE raw

\* C12: every node the scan emits has its humidity absent when the raw rh of
\* its probe is missing, zero or negative, and equal to the raw rh when that
\* is strictly positive; and every candidate that passes the presence rule
\* is emitted whatever its raw rh.
C12_HumiditySanitization ==
    ScanDone =>
      /\ \A j \in DOMAIN ret.nodes :
           \E i \in DOMAIN log :
             /\ log[i].node[1] = ret.nodes[j].node_id
             /\ PresenceRule(resps[i])
             /\ ret.nodes[j].rh = SpecHumidity(resps[i].body[1].rh)
      /\ \A i \in DOMAIN log :
           PresenceRule(resps[i]) => log[i].node[1] \in ReturnedIds

\* the scan emitted a node whose probe reported a humidity of zero, without
\* humidity, and a node whose probe reported a positive humidity, with it
C12_Witness ==
    /\ ScanDone
    /\ \E i, k \in DOMAIN log :
         /\ PresenceRule(resps[i]) /\ PresenceRule(resps[k])
         /\ resps[i].body[1].rh = Some(0)
         /\ resps[k].body[1].rh # None /\ resps[k].body[1].rh[1] > 0
         /\ \E j, l \in DOMAIN ret.nodes :
              /\ ret.nodes[j].node_id = log[i].node[1]
              /\ ret.nodes[j].rh = None
              /\ ret.nodes[l].node_id = log[k].node[1]
              /\ ret.nodes[l].rh = resps[k].body[1].rh

\* the scan emitted a node whose probe reported a negative humidity, and a
\* node whose probe reported none, both without humidity
C12_WitnessNegative ==
    /\ ScanDone
    /\ \E i, k \in DOMAIN log :
         /\ PresenceRule(resps[i]) /\ PresenceRule(resps[k])
         /\ resps[i].body[1].rh # None /\ resps[i].body[1].rh[1] < 0
         /\ resps[k].body[1].rh = None
         /\ {log[i].node[1], log[k].node[1]} \subseteq ReturnedIds
         /\ \A j \in DOMAIN ret.nodes : ret.nodes[j].rh = None

====
